---------------------------- MODULE Spec2Model ----------------------------
(***************************************************************************)
(* Model of the report PDF composer of elBullistatistics (src/pdf.py).     *)
(*                                                                         *)
(* build_pdf hands a story of flowables to the document engine, which      *)
(* lays it out page by page.  The engine's layout loop (begin a page, call *)
(* the page template's onPage callback, add flowables to the frame, end    *)
(* the page, save) is modelled one step per action; the callbacks and the  *)
(* CenteredImage flowable are translated from pdf.py.                      *)
(*                                                                         *)
(* Lengths are exact rationals in points, [n |-> numerator, d |-> denom.]. *)
(* Text is a sequence of one-character strings.                            *)
(***************************************************************************)
EXTENDS Integers, Sequences, FiniteSets, TLC

VARIABLES
    \* ---- the file system seen by a build
    unreadable,       \* page-image paths that cannot be opened
    coverOK,          \* resources/cover.jpg can be read
    logoOK,           \* resources/water.png can be read
    \* ---- build_pdf's arguments
    page_images, file_name, total_visitors, titulo,
    \* ---- the document engine during doc.build(story)
    pc,               \* "idle" | "build" | "done" | "failed"
    story,            \* flowables not yet handled
    hanging,          \* a PageBegin is pending
    page,             \* doc.page
    pageTemplate,     \* template of the current page
    nextPageTemplate, \* <<>> or <<id>>: template selected for the next page
    frameAvail,       \* height left in the current frame
    pageFlowables,    \* flowables placed on the current page
    canvasOps,        \* what has been drawn on the page not yet shown
    pages,            \* the pages shown so far
    output,           \* the output sink: <<>> or <<the saved pages>>
    err,              \* "none" or the class of the propagated exception
    coverCalls,       \* calls of draw_cover
    commonCalls,      \* calls of draw_common_elements
    openReaders,      \* page-image paths on which a reader is still open
    \* ---- thousands formatting of the visitor count
    fmtIn, fmtOut,
    \* ---- one CenteredImage flowable: its hints, and wrap / draw on it
    ci, ciPc, ciX, ciY,
    \* ---- the cover title's height on its own
    coverIn, coverY,
    \* ---- more than one call of build_pdf
    earlier,          \* the results of the calls that have returned
    parked,           \* the locals of a second call, while it is not running
    overlapped,       \* the two calls have been in doc.build at the same time
    \* ---- the upload form of the application (tab 1)
    reportReady,      \* st.session_state["reportReady"]
    session,          \* the stored dataframes: state key -> 0 (None) or the
                      \* number of the submission that loaded it
    submissions,      \* submissions made so far
    form,             \* the fields of the form as last submitted
    upPc,             \* "idle" | "loading" | "finishing"
    ran,              \* state keys whose loader was called in this submission
    bar,              \* the progress bar: <<>> or <<the value shown>>
    progress,         \* the local variable progress
    message,          \* the warning, error or success shown by the form
    \* ---- the report tab of the application (tab 2)
    dfVisit,          \* the rows of st.session_state["dfVisit"]
    dateRange,        \* startDate and endDate of the session, as day numbers
    devMode,          \* st.session_state["devMode"]
    runs,             \* script runs that have reached the report tab
    totalVisitors,    \* <<>> or <<the value computed by the last run>>
    openDays,         \* <<>> or <<the value computed by the last run>>
    totals,           \* totalVisitors of every run that computed it, in order
    repErr,           \* "none" or the exception that ended the last run
    \* ---- the export tab of the application (tab 3)
    slots             \* the screenshot slots that hold an upload

buildVars == <<unreadable, coverOK, logoOK, page_images, file_name,
               total_visitors, titulo, pc, story, hanging, page,
               pageTemplate, nextPageTemplate, frameAvail, pageFlowables,
               canvasOps, pages, output, err, coverCalls, commonCalls,
               openReaders>>
fmtVars == <<fmtIn, fmtOut>>
ciVars == <<ci, ciPc, ciX, ciY>>
coverVars == <<coverIn, coverY>>
callVars == <<earlier, parked, overlapped>>
upVars == <<reportReady, session, submissions, form, upPc, ran, bar, progress,
            message>>
repVars == <<dfVisit, dateRange, devMode, runs, totalVisitors, openDays,
             totals, repErr>>
expVars == <<slots>>
appVars == <<upVars, repVars, expVars>>
vars == <<buildVars, fmtVars, ciVars, coverVars, callVars, appVars>>

(***************************************************************************)
(* Bounds of the model.                                                    *)
(***************************************************************************)
MaxImages == 3
MaxSmallVisitors == 1100
MaxDim == 3
MaxHalfCm == 8
MaxBuilds == 3
MaxSubmissions == 3
MaxRows == 2
MaxRuns == 3
MaxFilled == 2

(***************************************************************************)
(* Exact rational arithmetic.                                              *)
(***************************************************************************)
Abs(a) == IF a < 0 THEN -a ELSE a

RECURSIVE GCD(_, _)
GCD(a, b) == IF b = 0 THEN a ELSE GCD(b, a % b)

Rat(n, d) ==
    LET g == GCD(Abs(n), Abs(d))
        s == IF d < 0 THEN -1 ELSE 1
    IN  [n |-> (s * n) \div g, d |-> (s * d) \div g]

FromInt(i) == [n |-> i, d |-> 1]
RAdd(a, b) == Rat(a.n * b.d + b.n * a.d, a.d * b.d)
RSub(a, b) == Rat(a.n * b.d - b.n * a.d, a.d * b.d)
RMul(a, b) ==
    LET g1 == GCD(Abs(a.n), b.d)
        g2 == GCD(Abs(b.n), a.d)
    IN  Rat((a.n \div g1) * (b.n \div g2), (a.d \div g2) * (b.d \div g1))
RDiv(a, b) == RMul(a, Rat(b.d, b.n))
RLt(a, b) == a.n * b.d < b.n * a.d
RLe(a, b) == a.n * b.d <= b.n * a.d
RMin(a, b) == IF RLe(a, b) THEN a ELSE b
RMax(a, b) == IF RLe(a, b) THEN b ELSE a
IsZero(a) == a.n = 0

\* An optional value: None, or Some(v).
None == <<>>
Some(v) == <<v>>
IsNone(o) == o = <<>>
Val(o) == o[1]

(***************************************************************************)
(* Units and the page.                                                     *)
(***************************************************************************)
\* reportlab.lib.units.cm = 72 / 2.54 points
Cm == Rat(3600, 127)
CmTimes(n, d) == RMul(Rat(n, d), Cm)
Pt(i) == FromInt(i)

\* landscape(A4): 29.7 cm wide, 21 cm high
PageWidth == CmTimes(297, 10)
PageHeight == CmTimes(21, 1)


(***************************************************************************)
(* Text.                                                                   *)
(***************************************************************************)
DigitChar(k) ==
    CASE k = 0 -> "0" [] k = 1 -> "1" [] k = 2 -> "2" [] k = 3 -> "3"
      [] k = 4 -> "4" [] k = 5 -> "5" [] k = 6 -> "6" [] k = 7 -> "7"
      [] k = 8 -> "8" [] k = 9 -> "9"

DigitValue(c) ==
    CASE c = "0" -> 0 [] c = "1" -> 1 [] c = "2" -> 2 [] c = "3" -> 3
      [] c = "4" -> 4 [] c = "5" -> 5 [] c = "6" -> 6 [] c = "7" -> 7
      [] c = "8" -> 8 [] c = "9" -> 9 [] OTHER -> -1

\* str(n) of a non-negative integer
RECURSIVE Digits(_)
Digits(n) == IF n < 10 THEN <<DigitChar(n)>>
             ELSE Append(Digits(n \div 10), DigitChar(n % 10))

\* the ',' option of the format mini-language: a comma before every group of
\* three digits, counted from the right
RECURSIVE GroupComma(_)
GroupComma(ds) ==
    IF Len(ds) <= 3 THEN ds
    ELSE GroupComma(SubSeq(ds, 1, Len(ds) - 3)) \o <<",">>
         \o SubSeq(ds, Len(ds) - 2, Len(ds))

FormatComma(n) == GroupComma(Digits(n))

\* str.replace(old, new) for one-character old and new
Replace(s, old, new) == [i \in 1..Len(s) |-> IF s[i] = old THEN new ELSE s[i]]

\* vis_str of draw_common_elements (variant first: the commas are kept)
VisStrNoReplace(tv) == FormatComma(tv)
VisStr(tv) == Replace(FormatComma(tv), ",", ".")

\* canvas.stringWidth: the sum of the glyph advances of the registered font,
\* in thousandths of the font size.  The advance is taken per font, not per
\* glyph.
GlyphAdvance(font) == IF font = "Raleway-Bold" THEN 600 ELSE 560
StringWidth(text, font, size) ==
    Rat(Len(text) * GlyphAdvance(font) * size, 1000)

(***************************************************************************)
(* CenteredImage (the flowable).                                           *)
(***************************************************************************)
\* Python truthiness of an optional number: None and 0 are false
Truthy(o) == ~IsNone(o) /\ ~IsZero(Val(o))

\* CenteredImage.__init__
CenteredImage(path, draw_w, draw_h, scale, fit) ==
    [type |-> "CenteredImage", path |-> path, draw_w |-> draw_w,
     draw_h |-> draw_h, scale |-> scale, fit |-> fit,
     dw |-> None, dh |-> None, availW |-> None, availH |-> None,
     postponed |-> FALSE]

\* variant: with both a width and a height hinted, the box is filled
WrapHintedStretch(self, iw, ih) ==
    IF ~IsNone(self.scale)
    THEN <<RMul(FromInt(iw), Val(self.scale)), RMul(FromInt(ih), Val(self.scale))>>
    ELSE IF Truthy(self.draw_w) /\ Truthy(self.draw_h)
    THEN <<Val(self.draw_w), Val(self.draw_h)>>
    ELSE IF Truthy(self.draw_w)
    THEN <<Val(self.draw_w), RMul(FromInt(ih), RDiv(Val(self.draw_w), FromInt(iw)))>>
    ELSE IF Truthy(self.draw_h)
    THEN <<RMul(FromInt(iw), RDiv(Val(self.draw_h), FromInt(ih))), Val(self.draw_h)>>
    ELSE <<FromInt(iw), FromInt(ih)>>

\* variant: the width and height hints are looked at before the scale
WrapHintedHintsFirst(self, iw, ih) ==
    IF Truthy(self.draw_w) /\ Truthy(self.draw_h)
    THEN LET r == RMin(RDiv(Val(self.draw_w), FromInt(iw)),
                       RDiv(Val(self.draw_h), FromInt(ih)))
         IN  <<RMul(FromInt(iw), r), RMul(FromInt(ih), r)>>
    ELSE IF Truthy(self.draw_w)
    THEN LET r == RDiv(Val(self.draw_w), FromInt(iw))
         IN  <<RMul(FromInt(iw), r), RMul(FromInt(ih), r)>>
    ELSE IF Truthy(self.draw_h)
    THEN LET r == RDiv(Val(self.draw_h), FromInt(ih))
         IN  <<RMul(FromInt(iw), r), RMul(FromInt(ih), r)>>
    ELSE IF ~IsNone(self.scale)
    THEN <<RMul(FromInt(iw), Val(self.scale)), RMul(FromInt(ih), Val(self.scale))>>
    ELSE <<FromInt(iw), FromInt(ih)>>

\* wrap, the hints: the draw size before the fit step
WrapHinted(self, iw, ih) ==
    IF ~IsNone(self.scale)
    THEN <<RMul(FromInt(iw), Val(self.scale)), RMul(FromInt(ih), Val(self.scale))>>
    ELSE IF Truthy(self.draw_w) /\ Truthy(self.draw_h)
    THEN LET r == RMin(RDiv(Val(self.draw_w), FromInt(iw)),
                       RDiv(Val(self.draw_h), FromInt(ih)))
         IN  <<RMul(FromInt(iw), r), RMul(FromInt(ih), r)>>
    ELSE IF Truthy(self.draw_w)
    THEN LET r == RDiv(Val(self.draw_w), FromInt(iw))
         IN  <<RMul(FromInt(iw), r), RMul(FromInt(ih), r)>>
    ELSE IF Truthy(self.draw_h)
    THEN LET r == RDiv(Val(self.draw_h), FromInt(ih))
         IN  <<RMul(FromInt(iw), r), RMul(FromInt(ih), r)>>
    ELSE <<FromInt(iw), FromInt(ih)>>

\* wrap, the fit step.  A zero draw width or height makes the division
\* raise ZeroDivisionError.
WrapFit(self, d, availWidth, availHeight) ==
    IF ~self.fit THEN [ok |-> TRUE, dw |-> d[1], dh |-> d[2]]
    ELSE IF IsZero(d[1]) \/ IsZero(d[2])
    THEN [ok |-> FALSE, dw |-> d[1], dh |-> d[2]]
    ELSE LET rfit == RMin(RMin(RDiv(availWidth, d[1]), RDiv(availHeight, d[2])),
                          FromInt(1))
         IN  [ok |-> TRUE, dw |-> RMul(d[1], rfit), dh |-> RMul(d[2], rfit)]

\* wrap: the draw size for an image of iw x ih pixels
WrapSize(self, iw, ih, availWidth, availHeight) ==
    WrapFit(self, WrapHinted(self, iw, ih), availWidth, availHeight)

\* wrap's effect on the flowable, and the size it reports: (availWidth, availHeight)
WrapSelf(self, iw, ih, availWidth, availHeight) ==
    LET r == WrapSize(self, iw, ih, availWidth, availHeight)
    IN  [self EXCEPT !.dw = Some(r.dw), !.dh = Some(r.dh),
                     !.availW = Some(availWidth), !.availH = Some(availHeight)]
\* (variant: wrap reports the draw size it has recorded)
WrapReturnDrawSize(self, availWidth, availHeight) == <<Val(self.dw), Val(self.dh)>>

WrapReturn(self, availWidth, availHeight) == <<availWidth, availHeight>>

\* draw: where the image is painted, in the flowable's coordinates (variant
\* first: centred with no correction)
DrawXCentred(self) == RDiv(RSub(Val(self.availW), Val(self.dw)), FromInt(2))
DrawX(self) == RSub(RDiv(RSub(Val(self.availW), Val(self.dw)), FromInt(2)), Cm)
DrawY(self) == RDiv(RSub(Val(self.availH), Val(self.dh)), FromInt(2))

(***************************************************************************)
(* The images a build can be given, and the static assets.                 *)
(***************************************************************************)
Paths == {"wide", "tall"}

\* ImageReader(path).getSize(): the pixel size of each test image
\* the screenshot slots of the export tab, by widget key, in the order of
\* the uploads list; a filled slot is written to a temporary file of its own
SlotNames ==
    <<"p1", "p2", "p3", "p4", "p5", "p6", "p7", "p8", "p9", "p10", "p11",
      "p12", "p13">>

SlotSet == {SlotNames[i] : i \in 1..Len(SlotNames)}

ImageSize(path) ==
    CASE path = "wide" -> <<1600, 900>>
      [] path \in SlotSet -> <<1600, 900>>
      [] path = "tall" -> <<600, 1200>>
      [] path = "small" -> <<200, 100>>
      [] path = "resources/cover.jpg" -> <<1500, 1000>>
      [] path = "resources/water.png" -> <<300, 400>>

FileNames == {<<"J", "u", "l">>, <<"2", "0", "2", "5", "-", "0", "8">>}
Titles == {"Informe", "Informe Consolidado"}
VisitorCounts == {0, 987, 1234567}

TitleText ==
    <<"E", "s", "t", "a", "d", "í", "s", "t", "i", "c", "a", "s", " ",
      "e", "l", "B", "u", "l", "l", "i", "1", "8", "4", "6">>
FechaLabel == <<"F", "e", "c", "h", "a", ":">>
VisitantesLabel ==
    <<"V", "i", "s", "i", "t", "a", "n", "t", "e", "s", " ",
      "t", "o", "t", "a", "l", "e", "s", ":">>

\* the title the BODY template's callback passes to draw_common_elements
\* (variant first: the titulo argument of build_pdf)
HeaderTitleFromTitulo(tit) == <<tit>>

HeaderTitle(tit) == TitleText

\* one thing drawn on the canvas: which element, its text, anchor and size
Op(elem, text, x, y, w, h) ==
    [elem |-> elem, text |-> text, x |-> x, y |-> y, w |-> w, h |-> h]
Zero == FromInt(0)

(***************************************************************************)
(* The drawing callbacks.                                                  *)
(***************************************************************************)
\* draw_cover, given that the cover image can be read
\* the height of the title above the page bottom (variant first: the
\* configured distance taken as it is)
CoverTextYUnclamped(text_from_bottom_cm, height) ==
    RMul(text_from_bottom_cm, Cm)

CoverTextY(text_from_bottom_cm, height) ==
    RMax(Cm, RMin(RMul(text_from_bottom_cm, Cm),
                  RSub(height, CmTimes(15, 10))))

DrawCover(fn, image_offset_cm, text_from_bottom_cm) ==
    LET sz == ImageSize("resources/cover.jpg")
        iw == FromInt(sz[1])
        ih == FromInt(sz[2])
        max_w == RMul(PageWidth, Rat(12, 10))
        max_h == RMul(PageHeight, Rat(9, 10))
        scale == RMin(RDiv(max_w, iw), RDiv(max_h, ih))
        dw == RMul(iw, scale)
        dh == RMul(ih, scale)
        image_y == RAdd(RDiv(RSub(PageHeight, dh), FromInt(2)),
                        RMul(image_offset_cm, Cm))
        image_x == RDiv(RSub(PageWidth, dw), FromInt(2))
        text_y == CoverTextY(text_from_bottom_cm, PageHeight)
    IN  << Op("coverImage", <<>>, image_x, image_y, dw, dh),
           Op("coverTitle", fn, RDiv(PageWidth, FromInt(2)), text_y, Zero, Zero) >>

\* the cover callback as the engine calls it: reading the cover image raises
\* when it is missing (variant first: the failure is swallowed)
CoverCallSwallows(fn, readable) ==
    [raised |-> FALSE,
     ops |-> IF readable THEN DrawCover(fn, FromInt(-1), Rat(58, 10)) ELSE <<>>]
CoverCall(fn, readable) ==
    [raised |-> ~readable,
     ops |-> IF readable THEN DrawCover(fn, FromInt(-1), Rat(58, 10)) ELSE <<>>]

\* draw_common_elements, the logo: drawn, or nothing when reading it raises
\* (variant first: the failure is not caught)
DrawLogoPropagates(readable) ==
    LET sz == ImageSize("resources/water.png")
        scale == RDiv(CmTimes(12, 10), FromInt(sz[2]))
        dw == RMul(FromInt(sz[1]), scale)
        dh == RMul(FromInt(sz[2]), scale)
    IN  [raised |-> ~readable,
         ops |-> IF readable
                 THEN << Op("logo", <<>>,
                            RSub(RSub(PageWidth, CmTimes(2, 1)), dw),
                            RSub(RSub(PageHeight, CmTimes(12, 10)),
                                 RMul(dh, Rat(1, 2))),
                            dw, dh) >>
                 ELSE <<>>]
DrawLogo(readable) ==
    LET sz == ImageSize("resources/water.png")
        scale == RDiv(CmTimes(12, 10), FromInt(sz[2]))
        dw == RMul(FromInt(sz[1]), scale)
        dh == RMul(FromInt(sz[2]), scale)
    IN  [raised |-> FALSE,
         ops |-> IF readable
                 THEN << Op("logo", <<>>,
                            RSub(RSub(PageWidth, CmTimes(2, 1)), dw),
                            RSub(RSub(PageHeight, CmTimes(12, 10)),
                                 RMul(dh, Rat(1, 2))),
                            dw, dh) >>
                 ELSE <<>>]

\* draw_common_elements, the number shown at the bottom right (variant first:
\* the engine's own page index)
ShownPageSameAsEngine(docPage) == docPage
ShownPage(docPage) == docPage - 1

\* off: how far right of the label's start the date value starts (variant
\* first: a fixed distance, the label not measured)
DateOffsetFixed(label) == FromInt(4)

DateOffset(label) == RAdd(StringWidth(label, "Raleway-Bold", 10), FromInt(4))

\* draw_common_elements, header: title and date label
DrawHeader(fn, title) ==
    LET top == RSub(PageHeight, CmTimes(12, 10))
        off == DateOffset(FechaLabel)
    IN  << Op("title", title, RDiv(PageWidth, FromInt(2)), top, Zero, Zero),
           Op("dateLabel", FechaLabel, CmTimes(2, 1), top, Zero, Zero),
           Op("dateValue", fn, RAdd(CmTimes(2, 1), off), top, Zero, Zero) >>

\* draw_common_elements, footer: visitor total and page number
DrawFooter(tv, docPage) ==
    LET vis_str == VisStr(tv)
        lw == StringWidth(VisitantesLabel, "Raleway-Bold", 10)
        vw == StringWidth(vis_str, "Raleway", 10)
        start_x == RDiv(RSub(PageWidth, RAdd(RAdd(lw, vw), FromInt(4))), FromInt(2))
        bottom == CmTimes(12, 10)
    IN  << Op("visLabel", VisitantesLabel, start_x, bottom, Zero, Zero),
           Op("visValue", vis_str, RAdd(RAdd(start_x, lw), FromInt(4)), bottom,
              Zero, Zero),
           Op("pageNum", Digits(ShownPage(docPage)),
              RSub(PageWidth, CmTimes(2, 1)), bottom, Zero, Zero) >>

\* draw_common_elements: what it draws, and whether it raises
DrawCommonElements(fn, tv, title, docPage, logoReadable) ==
    LET logo == DrawLogo(logoReadable)
    IN  [raised |-> logo.raised,
         ops |-> IF logo.raised THEN DrawHeader(fn, title)
                 ELSE DrawHeader(fn, title) \o logo.ops \o DrawFooter(tv, docPage)]

(***************************************************************************)
(* build_pdf: templates, frames and the story.                             *)
(***************************************************************************)
\* Frame(x, y, width, height) with the engine's default padding of 6 points
FramePadding == Pt(6)
FrameOf(tpl) ==
    IF tpl = "COVER"
    THEN [x |-> Zero, y |-> Zero, w |-> CmTimes(1000, 1), h |-> CmTimes(1000, 1)]
    ELSE [x |-> CmTimes(2, 1), y |-> CmTimes(25, 10),
          w |-> CmTimes(277, 10), h |-> CmTimes(16, 1)]
FrameAvailWidth(tpl) == RSub(FrameOf(tpl).w, RMul(FromInt(2), FramePadding))
FrameAvailHeight(tpl) == RSub(FrameOf(tpl).h, RMul(FromInt(2), FramePadding))
FrameBottom(tpl) == RAdd(FrameOf(tpl).y, FramePadding)
FrameLeft(tpl) == RAdd(FrameOf(tpl).x, FramePadding)

\* the onPage callback bound to each template (variant first: both templates
\* bound to the body renderer)
OnPageAlwaysCommon(tpl) == "draw_common_elements"
OnPage(tpl) == IF tpl = "COVER" THEN "draw_cover" ELSE "draw_common_elements"

Paragraph == [type |-> "Paragraph"]
NextPageTemplate(id) == [type |-> "NextPageTemplate", id |-> id]
PageBreak == [type |-> "PageBreak"]
\* leading of the BodyText style: the height of the one-line paragraph
ParagraphHeight == Pt(12)

\* the image part of the story: one CenteredImage per path, a PageBreak
\* between two images
ImageFlowables(imgs) ==
    [k \in 1..(2 * Len(imgs) - 1) |->
        IF k % 2 = 1
        THEN CenteredImage(imgs[(k + 1) \div 2], Some(CmTimes(26, 1)), None, None, FALSE)
        ELSE PageBreak]

\* variant: the loop runs over the distinct paths only
RECURSIVE Distinct(_)
Distinct(imgs) ==
    IF imgs = <<>> THEN <<>>
    ELSE LET front == Distinct(SubSeq(imgs, 1, Len(imgs) - 1))
             last == imgs[Len(imgs)]
         IN  IF \E i \in 1..Len(front) : front[i] = last THEN front
             ELSE Append(front, last)
StoryOfDistinct(imgs) ==
    <<Paragraph, NextPageTemplate("BODY"), PageBreak>> \o ImageFlowables(Distinct(imgs))
\* variant: the images are laid out last to first
Reverse(imgs) == [i \in 1..Len(imgs) |-> imgs[Len(imgs) + 1 - i]]
StoryReversed(imgs) ==
    <<Paragraph, NextPageTemplate("BODY"), PageBreak>> \o ImageFlowables(Reverse(imgs))
\* variant: paths that do not exist are left out
StorySkippingUnreadable(imgs) ==
    <<Paragraph, NextPageTemplate("BODY"), PageBreak>>
    \o ImageFlowables(SelectSeq(imgs, LAMBDA p : p \notin unreadable))
\* variant: no template is selected for the pages after the cover
StoryWithoutSwitch(imgs) ==
    <<Paragraph, PageBreak>> \o ImageFlowables(imgs)

Story(imgs) ==
    <<Paragraph, NextPageTemplate("BODY"), PageBreak>> \o ImageFlowables(imgs)

(***************************************************************************)
(* The calls the engine makes on a CenteredImage.                          *)
(***************************************************************************)
\* flowable.wrap(availWidth, availHeight): ImageReader raises on a path that
\* cannot be read
WrapCall(self, unread, availWidth, availHeight) ==
    IF self.path \in unread
    THEN [raised |-> "IOError", self |-> self, size |-> <<Zero, Zero>>]
    ELSE LET sz == ImageSize(self.path)
         IN  IF ~WrapSize(self, sz[1], sz[2], availWidth, availHeight).ok
             THEN [raised |-> "ZeroDivisionError", self |-> self,
                   size |-> <<Zero, Zero>>]
             ELSE [raised |-> "none",
                   self |-> WrapSelf(self, sz[1], sz[2], availWidth, availHeight),
                   size |-> WrapReturn(WrapSelf(self, sz[1], sz[2], availWidth,
                                                availHeight),
                                       availWidth, availHeight)]

\* ImageReader(self.path) in wrap and canvas.drawImage(self.path, ...) in
\* draw open the file; neither is closed nor scoped by the code
Opened(self, unread) == IF self.path \in unread THEN {} ELSE {self.path}

\* the readers still open out of S: the code releases none itself, each is
\* released when the garbage collector finalises it, which may be at once
\* or not before the build has ended
Lingering(S) == SUBSET S

\* flowable.drawOn(canvas, x, y): draw() with the origin moved to (x, y)
DrawCall(self, unread, x, y) ==
    IF self.path \in unread
    THEN [raised |-> "IOError", ops |-> <<>>]
    ELSE [raised |-> "none",
          ops |-> << Op("image", <<self.path>>, RAdd(x, DrawX(self)),
                        RAdd(y, DrawY(self)), Val(self.dw), Val(self.dh)) >>]

(***************************************************************************)
(* The document engine: doc.build(story).                                  *)
(***************************************************************************)
\* the build stops on an exception, which build_pdf lets through
Raise(class) ==
    /\ pc' = "failed"
    /\ err' = class

\* handle_pageEnd: show the page, take up the selected template, hang a
\* PageBegin
PageEnd ==
    /\ pages' = Append(pages, [template |-> pageTemplate, number |-> page,
                               ops |-> canvasOps])
    /\ canvasOps' = <<>>
    /\ pageTemplate' = IF nextPageTemplate # <<>> THEN nextPageTemplate[1]
                       ELSE pageTemplate
    /\ nextPageTemplate' = <<>>
    /\ hanging' = TRUE

\* the document, canvas and output sink a call works on: build_pdf makes
\* them anew in every call (variant first: one document kept at module
\* level and used again)
NewDocReused(old) == old

NewDoc(old) ==
    [page |-> 0, pageTemplate |-> "COVER", nextPageTemplate |-> <<>>,
     frameAvail |-> Zero, pageFlowables |-> 0, canvasOps |-> <<>>,
     pages |-> <<>>, output |-> <<>>]

\* build_pdf up to doc.build: the arguments, the story, the document begun
BuildPdf(imgs, fn, tv, tit) ==
    /\ pc = "idle"
    /\ page_images' = imgs
    /\ file_name' = fn
    /\ total_visitors' = tv
    /\ titulo' = tit
    /\ story' = Story(imgs)
    /\ pc' = "build"
    /\ hanging' = TRUE
    /\ LET doc == NewDoc([page |-> page, pageTemplate |-> pageTemplate,
                          nextPageTemplate |-> nextPageTemplate,
                          frameAvail |-> frameAvail,
                          pageFlowables |-> pageFlowables,
                          canvasOps |-> canvasOps, pages |-> pages,
                          output |-> output])
       IN  /\ page' = doc.page
           /\ pageTemplate' = doc.pageTemplate
           /\ nextPageTemplate' = doc.nextPageTemplate
           /\ frameAvail' = doc.frameAvail
           /\ pageFlowables' = doc.pageFlowables
           /\ canvasOps' = doc.canvasOps
           /\ pages' = doc.pages
           /\ output' = doc.output
    /\ err' = "none"
    /\ coverCalls' = 0
    /\ commonCalls' = 0
    /\ UNCHANGED <<openReaders, unreadable, coverOK, logoOK>>
    /\ UNCHANGED <<fmtVars, ciVars, coverVars, callVars, appVars>>

\* handle_pageBegin: the template's onPage callback, then a fresh frame
HandlePageBegin ==
    /\ pc = "build"
    /\ hanging
    /\ story # <<>>
    /\ page' = page + 1
    /\ hanging' = FALSE
    /\ frameAvail' = FrameAvailHeight(pageTemplate)
    /\ pageFlowables' = 0
    /\ IF OnPage(pageTemplate) = "draw_cover"
       THEN LET r == CoverCall(file_name, coverOK)
            IN  /\ coverCalls' = coverCalls + 1
                /\ commonCalls' = commonCalls
                /\ canvasOps' = r.ops
                /\ IF r.raised THEN Raise("IOError") ELSE UNCHANGED <<pc, err>>
       ELSE LET r == DrawCommonElements(file_name, total_visitors,
                                        HeaderTitle(titulo), page + 1, logoOK)
            IN  /\ commonCalls' = commonCalls + 1
                /\ coverCalls' = coverCalls
                /\ canvasOps' = r.ops
                /\ IF r.raised THEN Raise("IOError") ELSE UNCHANGED <<pc, err>>
    /\ UNCHANGED <<openReaders, unreadable, coverOK, logoOK, page_images, file_name,
                   total_visitors, titulo, story, pageTemplate,
                   nextPageTemplate, pages, output>>
    /\ UNCHANGED <<fmtVars, ciVars, coverVars, callVars, appVars>>

\* handle_flowable on the Paragraph: frame.add
HandleParagraph ==
    /\ pc = "build"
    /\ ~hanging
    /\ story # <<>>
    /\ Head(story).type = "Paragraph"
    /\ IF RLe(ParagraphHeight, frameAvail) /\ RLt(Zero, frameAvail)
       THEN /\ frameAvail' = RSub(frameAvail, ParagraphHeight)
            /\ pageFlowables' = pageFlowables + 1
            /\ story' = Tail(story)
            /\ UNCHANGED <<hanging, pageTemplate, nextPageTemplate, canvasOps,
                           pages>>
       ELSE /\ PageEnd
            /\ UNCHANGED <<story, frameAvail, pageFlowables>>
    /\ UNCHANGED <<openReaders, unreadable, coverOK, logoOK, page_images, file_name,
                   total_visitors, titulo, pc, page, output, err, coverCalls,
                   commonCalls>>
    /\ UNCHANGED <<fmtVars, ciVars, coverVars, callVars, appVars>>

\* handle_flowable on NextPageTemplate: an action flowable, applied
HandleNextPageTemplate ==
    /\ pc = "build"
    /\ ~hanging
    /\ story # <<>>
    /\ Head(story).type = "NextPageTemplate"
    /\ nextPageTemplate' = <<Head(story).id>>
    /\ story' = Tail(story)
    /\ UNCHANGED <<openReaders, unreadable, coverOK, logoOK, page_images, file_name,
                   total_visitors, titulo, pc, hanging, page, pageTemplate,
                   frameAvail, pageFlowables, canvasOps, pages, output, err,
                   coverCalls, commonCalls>>
    /\ UNCHANGED <<fmtVars, ciVars, coverVars, callVars, appVars>>

\* handle_flowable on a PageBreak: handle_pageBreak
HandlePageBreak ==
    /\ pc = "build"
    /\ ~hanging
    /\ story # <<>>
    /\ Head(story).type = "PageBreak"
    /\ PageEnd
    /\ story' = Tail(story)
    /\ UNCHANGED <<openReaders, unreadable, coverOK, logoOK, page_images, file_name,
                   total_visitors, titulo, pc, page, frameAvail, pageFlowables,
                   output, err, coverCalls, commonCalls>>
    /\ UNCHANGED <<fmtVars, ciVars, coverVars, callVars, appVars>>

\* handle_flowable on a CenteredImage: frame.add wraps it in the space left,
\* and draws it when the reported height fits; else the frame ends and the
\* flowable is put back, once
HandleCenteredImage ==
    /\ pc = "build"
    /\ ~hanging
    /\ story # <<>>
    /\ Head(story).type = "CenteredImage"
    /\ LET f == Head(story)
           aW == FrameAvailWidth(pageTemplate)
           w == WrapCall(f, unreadable, aW, frameAvail)
           left == RSub(frameAvail, w.size[2])
           d == DrawCall(w.self, unreadable, FrameLeft(pageTemplate),
                         RAdd(FrameBottom(pageTemplate), left))
       IN  IF RLt(Zero, frameAvail) /\ w.raised # "none"
           THEN /\ Raise(w.raised)
                /\ openReaders' \in Lingering(openReaders \cup Opened(f, unreadable))
                /\ UNCHANGED <<story, hanging, pageTemplate, nextPageTemplate,
                               frameAvail, pageFlowables, canvasOps, pages>>
           ELSE IF RLt(Zero, frameAvail) /\ RLe(w.size[2], frameAvail)
           THEN /\ IF d.raised # "none" THEN Raise(d.raised)
                   ELSE UNCHANGED <<pc, err>>
                /\ openReaders' \in Lingering(openReaders \cup Opened(f, unreadable))
                /\ canvasOps' = canvasOps \o d.ops
                /\ frameAvail' = left
                /\ pageFlowables' = pageFlowables + 1
                /\ story' = Tail(story)
                /\ UNCHANGED <<hanging, pageTemplate, nextPageTemplate, pages>>
           ELSE IF f.postponed
           THEN /\ Raise("LayoutError")
                /\ openReaders' \in Lingering(openReaders \cup
                        IF RLt(Zero, frameAvail) THEN Opened(f, unreadable) ELSE {})
                /\ UNCHANGED <<story, hanging, pageTemplate, nextPageTemplate,
                               frameAvail, pageFlowables, canvasOps, pages>>
           ELSE /\ PageEnd
                /\ openReaders' \in Lingering(openReaders \cup
                        IF RLt(Zero, frameAvail) THEN Opened(f, unreadable) ELSE {})
                /\ story' = <<[f EXCEPT !.postponed = TRUE]>> \o Tail(story)
                /\ UNCHANGED <<pc, err, frameAvail, pageFlowables>>
    /\ UNCHANGED <<unreadable, coverOK, logoOK, page_images, file_name,
                   total_visitors, titulo, page, output, coverCalls,
                   commonCalls>>
    /\ UNCHANGED <<fmtVars, ciVars, coverVars, callVars, appVars>>

\* _endBuild: a pending PageBegin is dropped, else the last page is ended;
\* then canvas.save() writes the document to output_path; nothing closes a
\* reader, the collector may have
EndBuild ==
    /\ pc = "build"
    /\ story = <<>>
    /\ IF hanging
       THEN /\ hanging' = FALSE
            /\ UNCHANGED <<pages, canvasOps, pageTemplate, nextPageTemplate>>
       ELSE PageEnd
    /\ output' = <<pages'>>
    /\ pc' = "done"
    /\ openReaders' \in Lingering(openReaders)
    /\ UNCHANGED <<unreadable, coverOK, logoOK, page_images, file_name,
                   total_visitors, titulo, story, page, frameAvail,
                   pageFlowables, err, coverCalls, commonCalls>>
    /\ UNCHANGED <<fmtVars, ciVars, coverVars, callVars, appVars>>

(***************************************************************************)
(* The visitor count formatted on its own.                                 *)
(***************************************************************************)
FormatVisitors ==
    /\ fmtOut = <<>>
    /\ fmtOut' = VisStr(fmtIn)
    /\ UNCHANGED <<fmtIn, buildVars, ciVars, coverVars, callVars, appVars>>

(***************************************************************************)
(* One CenteredImage on its own: wrap, then draw.                          *)
(***************************************************************************)
CiWrap ==
    /\ ciPc = "new"
    /\ IF WrapSize(ci.self, ci.iw, ci.ih, ci.aW, ci.aH).ok
       THEN /\ ci' = [ci EXCEPT !.self = WrapSelf(ci.self, ci.iw, ci.ih, ci.aW, ci.aH)]
            /\ ciPc' = "wrapped"
       ELSE /\ ciPc' = "raised"
            /\ UNCHANGED ci
    /\ UNCHANGED <<ciX, ciY, buildVars, fmtVars, coverVars, callVars, appVars>>

CiDraw ==
    /\ ciPc = "wrapped"
    /\ ciX' = DrawX(ci.self)
    /\ ciY' = DrawY(ci.self)
    /\ ciPc' = "drawn"
    /\ UNCHANGED <<ci, buildVars, fmtVars, coverVars, callVars, appVars>>

(***************************************************************************)
(* The cover title's height on its own.                                    *)
(***************************************************************************)
CoverTitleY ==
    /\ coverY = None
    /\ coverY' = Some(CoverTextY(coverIn.text_from_bottom_cm, coverIn.height))
    /\ UNCHANGED <<coverIn, buildVars, fmtVars, ciVars, callVars, appVars>>

(***************************************************************************)
(* More than one call of build_pdf: one after the other, and two at once.  *)
(***************************************************************************)
\* what a finished call leaves to its caller: the document written to the
\* output sink, or the exception
Result(call) ==
    [page_images |-> call.page_images, file_name |-> call.file_name,
     total_visitors |-> call.total_visitors, titulo |-> call.titulo,
     output |-> call.output, err |-> call.err]

\* the locals of the running call: the arguments, and the objects build_pdf
\* creates (frames, templates, doc, story) with the engine's state in them
CallLocals ==
    [page_images |-> page_images, file_name |-> file_name,
     total_visitors |-> total_visitors, titulo |-> titulo, pc |-> pc,
     story |-> story, hanging |-> hanging, page |-> page,
     pageTemplate |-> pageTemplate, nextPageTemplate |-> nextPageTemplate,
     frameAvail |-> frameAvail, pageFlowables |-> pageFlowables,
     canvasOps |-> canvasOps, pages |-> pages, output |-> output,
     err |-> err, coverCalls |-> coverCalls, commonCalls |-> commonCalls]

\* build_pdf returns, or lets the exception through; the caller may call
\* again.  What the call leaves behind is its result and the readers it
\* did not close
BuildReturns ==
    /\ pc \in {"done", "failed"}
    /\ Len(earlier) + 1 < MaxBuilds
    /\ earlier' = Append(earlier, Result(CallLocals))
    /\ pc' = "idle"
    /\ story' = <<>>
    /\ hanging' = FALSE
    /\ UNCHANGED <<openReaders, unreadable, coverOK, logoOK, page_images,
                   file_name, total_visitors, titulo, page, pageTemplate,
                   nextPageTemplate, frameAvail, pageFlowables, canvasOps,
                   pages, output, err, coverCalls, commonCalls>>
    /\ UNCHANGED <<fmtVars, ciVars, coverVars, parked, overlapped, appVars>>

\* the locals a call finds when it runs again: its own (variant first: the
\* canvas is one object for both calls)
ResumedOnSharedCanvas(call) ==
    [call EXCEPT !.canvasOps = canvasOps, !.pages = pages]

Resumed(call) == call

\* the scheduler takes the processor from the running call and gives it to
\* the other one; the files and the open readers belong to the process
Switch ==
    /\ parked' = CallLocals
    /\ overlapped' = (overlapped \/ (pc = "build" /\ parked.pc = "build"))
    /\ LET call == Resumed(parked)
       IN  /\ page_images' = call.page_images
           /\ file_name' = call.file_name
           /\ total_visitors' = call.total_visitors
           /\ titulo' = call.titulo
           /\ pc' = call.pc
           /\ story' = call.story
           /\ hanging' = call.hanging
           /\ page' = call.page
           /\ pageTemplate' = call.pageTemplate
           /\ nextPageTemplate' = call.nextPageTemplate
           /\ frameAvail' = call.frameAvail
           /\ pageFlowables' = call.pageFlowables
           /\ canvasOps' = call.canvasOps
           /\ pages' = call.pages
           /\ output' = call.output
           /\ err' = call.err
           /\ coverCalls' = call.coverCalls
           /\ commonCalls' = call.commonCalls
    /\ UNCHANGED <<openReaders, unreadable, coverOK, logoOK>>
    /\ UNCHANGED <<fmtVars, ciVars, coverVars, earlier, appVars>>

(***************************************************************************)
(* The application, tab 1: the upload form and its submission.             *)
(***************************************************************************)
\* the six file uploaders of the form
Uploaders ==
    {"reservationViewList", "originSummary", "clientList", "storeRevenue",
     "detailedVisitLog", "parkingSlotLog"}

\* steps: the file each loader reads and the state key its frame is stored
\* under, in the order of the list
Steps ==
    << [file |-> "reservationViewList", key |-> "dfReservation"],
       [file |-> "originSummary", key |-> "dfOrigin"],
       [file |-> "clientList", key |-> "dfClient"],
       [file |-> "clientList", key |-> "dfGroup"],
       [file |-> "storeRevenue", key |-> "dfStore"],
       [file |-> "detailedVisitLog", key |-> "dfVisit"],
       [file |-> "parkingSlotLog", key |-> "dfParking"] >>

StateKeys == {Steps[i].key : i \in 1..Len(Steps)}

totalSteps == Len(Steps) + 1

\* incr = int(100 / totalSteps)
incr == 100 \div totalSteps

Min(a, b) == IF a <= b THEN a ELSE b

\* the first failing check of the form, or "ok" (variant first: the files
\* are looked at before the name and the dates)
ValidateFilesFirst(nameGiven, startAfterEnd, uploaded) ==
    IF uploaded # Uploaders THEN "files"
    ELSE IF ~nameGiven THEN "name"
    ELSE IF startAfterEnd THEN "dates"
    ELSE "ok"

Validate(nameGiven, startAfterEnd, uploaded) ==
    IF ~nameGiven THEN "name"
    ELSE IF startAfterEnd THEN "dates"
    ELSE IF uploaded # Uploaders THEN "files"
    ELSE "ok"

\* the form is submitted: validation, and on success the progress bar at 0
Submit(nameGiven, startAfterEnd, uploaded) ==
    /\ upPc = "idle"
    /\ submissions < MaxSubmissions
    /\ submissions' = submissions + 1
    /\ form' = [nameGiven |-> nameGiven, startAfterEnd |-> startAfterEnd,
                uploaded |-> uploaded]
    /\ ran' = <<>>
    /\ LET v == Validate(nameGiven, startAfterEnd, uploaded)
       IN  IF v = "ok"
           THEN /\ upPc' = "loading"
                /\ progress' = 0
                /\ bar' = <<0>>
                /\ message' = "none"
           ELSE /\ message' = v
                /\ bar' = <<>>
                /\ UNCHANGED <<upPc, progress>>
    /\ UNCHANGED <<reportReady, session>>
    /\ UNCHANGED <<buildVars, fmtVars, ciVars, coverVars, callVars, repVars, expVars>>

\* the frame stored after a loader has returned
Stored(sess, key, content) == [sess EXCEPT ![key] = content]

\* the value of the bar after one more loader (variant first: a step of one
\* part in as many as there are loaders, rounded up, and no cap)
AdvanceUncapped(p) == p + (100 \div Len(Steps)) + 1

Advance(p) == Min(p + incr, 99)

\* reportReady as the except clause leaves it (variant first: the flag is
\* left as it was)
FlagAfterErrorKept(flag) == flag

FlagAfterError(flag) == FALSE

\* one turn of the loop: the loader is called; its frame is stored and the
\* bar advanced, or it raises and the except clause runs
RunLoader ==
    /\ upPc = "loading"
    /\ Len(ran) < Len(Steps)
    /\ LET step == Steps[Len(ran) + 1]
       IN  /\ ran' = Append(ran, step.key)
           /\ \E raises \in BOOLEAN :
                IF raises
                THEN /\ reportReady' = FlagAfterError(reportReady)
                     /\ bar' = <<>>
                     /\ message' = "error"
                     /\ upPc' = "idle"
                     /\ UNCHANGED <<session, progress>>
                ELSE /\ session' = Stored(session, step.key, submissions)
                     /\ progress' = Advance(progress)
                     /\ bar' = <<progress'>>
                     /\ UNCHANGED <<reportReady, upPc, message>>
    /\ UNCHANGED <<submissions, form>>
    /\ UNCHANGED <<buildVars, fmtVars, ciVars, coverVars, callVars, repVars, expVars>>

\* after the loop: the flag is set and the bar shows 100
Finish ==
    /\ upPc = "loading"
    /\ Len(ran) = Len(Steps)
    /\ reportReady' = TRUE
    /\ bar' = <<100>>
    /\ upPc' = "finishing"
    /\ UNCHANGED <<session, submissions, form, ran, progress, message>>
    /\ UNCHANGED <<buildVars, fmtVars, ciVars, coverVars, callVars, repVars, expVars>>

\* the bar is removed and the success message shown
Clear ==
    /\ upPc = "finishing"
    /\ bar' = <<>>
    /\ message' = "success"
    /\ upPc' = "idle"
    /\ UNCHANGED <<reportReady, session, submissions, form, ran, progress>>
    /\ UNCHANGED <<buildVars, fmtVars, ciVars, coverVars, callVars, repVars, expVars>>

(***************************************************************************)
(* The application, tab 2: the report computed from the visit log.         *)
(***************************************************************************)
\* the products left out of the visitor figures (valuesToDelete)
ValuesToDelete == {"Parking (3h)"}

\* df["Pax"].sum()
RECURSIVE SumPax(_)
SumPax(df) == IF df = <<>> THEN 0 ELSE Head(df).Pax + SumPax(Tail(df))

\* the days of the frame whose visitors add up to more than none
DaysOpen(df) ==
    Cardinality({d \in {df[i].day : i \in 1..Len(df)} :
                    SumPax(SelectSeq(df, LAMBDA r : r.day = d)) > 0})

\* the frame the figures are computed from: the rows of the date range,
\* without the products left out
FilteredVisits(df, range) ==
    SelectSeq(SelectSeq(df, LAMBDA r : range.start <= r.day /\ r.day <= range.end),
          LAMBDA r : r.Producto \notin ValuesToDelete)

\* the frame written back in developer mode: dfVisit as it is at the end of
\* the tab, after `dfVisit = dfVisit[dfVisit["Importe (€)"] > 0]`
WrittenBack(df) == SelectSeq(df, LAMBDA r : r.Importe > 0)

\* one script run through the report tab
RenderReport ==
    /\ upPc = "idle"
    /\ runs < MaxRuns
    /\ runs' = runs + 1
    /\ IF ~reportReady
       THEN /\ repErr' = "none"
            /\ UNCHANGED <<dfVisit, totalVisitors, openDays, totals>>
       ELSE LET df == FilteredVisits(dfVisit, dateRange)
                days == DaysOpen(df)
                total == SumPax(df)
            IN  /\ openDays' = <<days>>
                /\ totalVisitors' = <<total>>
                /\ totals' = Append(totals, total)
                /\ IF days = 0
                   THEN /\ repErr' = "ZeroDivisionError"
                        /\ UNCHANGED dfVisit
                   ELSE /\ repErr' = "none"
                        /\ dfVisit' = IF devMode THEN WrittenBack(df) ELSE dfVisit
    /\ UNCHANGED <<dateRange, devMode>>
    /\ UNCHANGED <<buildVars, fmtVars, ciVars, coverVars, callVars, upVars, expVars>>

(***************************************************************************)
(* The application, tab 3: the PDF generator.                              *)
(***************************************************************************)
\* imagePaths: the temporary files of the filled slots, in the order of the
\* uploads list (variant first: the list built last slot first)
UploadedPathsLastFirst(filled) ==
    Reverse(SelectSeq(SlotNames, LAMBDA n : n \in filled))

UploadedPaths(filled) == SelectSeq(SlotNames, LAMBDA n : n \in filled)

\* the button "Generar y preparar descarga", which the tab shows only with
\* reportReady set: the uploads are written to temporary files and
\* build_pdf is called
GeneratePdf ==
    /\ upPc = "idle"
    /\ reportReady
    /\ repErr = "none"
    /\ totalVisitors # <<>>
    /\ \E fn \in FileNames :
            BuildPdf(UploadedPaths(slots), fn, totalVisitors[1],
                     "Informe Consolidado")

(***************************************************************************)
(* Initial states and specifications.                                      *)
(***************************************************************************)
RECURSIVE SeqsUpTo(_, _)
SeqsUpTo(S, n) ==
    IF n = 0 THEN {<<>>}
    ELSE LET shorter == SeqsUpTo(S, n - 1)
         IN  shorter \cup {Append(q, x) : q \in shorter, x \in S}

BuildIdle ==
    /\ page_images = <<>>
    /\ file_name = <<>>
    /\ total_visitors = 0
    /\ titulo = "Informe"
    /\ pc = "idle"
    /\ story = <<>>
    /\ hanging = FALSE
    /\ page = 0
    /\ pageTemplate = "COVER"
    /\ nextPageTemplate = <<>>
    /\ frameAvail = Zero
    /\ pageFlowables = 0
    /\ canvasOps = <<>>
    /\ pages = <<>>
    /\ output = <<>>
    /\ err = "none"
    /\ coverCalls = 0
    /\ commonCalls = 0
    /\ openReaders = {}

FmtIdle ==
    /\ fmtIn = 0
    /\ fmtOut = <<"0">>

CiIdle ==
    /\ ci = [self |-> CenteredImage("small", None, None, None, FALSE),
             iw |-> 1, ih |-> 1, aW |-> Zero, aH |-> Zero]
    /\ ciPc = "off"
    /\ ciX = Zero
    /\ ciY = Zero

\* a call that has not begun
IdleCall ==
    [page_images |-> <<>>, file_name |-> <<>>, total_visitors |-> 0,
     titulo |-> "Informe", pc |-> "idle", story |-> <<>>, hanging |-> FALSE,
     page |-> 0, pageTemplate |-> "COVER", nextPageTemplate |-> <<>>,
     frameAvail |-> Zero, pageFlowables |-> 0, canvasOps |-> <<>>,
     pages |-> <<>>, output |-> <<>>, err |-> "none", coverCalls |-> 0,
     commonCalls |-> 0]

CallIdle ==
    /\ earlier = <<>>
    /\ parked = IdleCall
    /\ overlapped = FALSE

\* the session of a browser that has just opened the application
UpIdle ==
    /\ reportReady = FALSE
    /\ session = [k \in StateKeys |-> 0]
    /\ submissions = 0
    /\ form = [nameGiven |-> FALSE, startAfterEnd |-> FALSE, uploaded |-> {}]
    /\ upPc = "idle"
    /\ ran = <<>>
    /\ bar = <<>>
    /\ progress = 0
    /\ message = "none"

\* no visit log loaded, the report tab not yet reached
RepIdle ==
    /\ dfVisit = <<>>
    /\ dateRange = [start |-> 1, end |-> 1]
    /\ devMode = FALSE
    /\ runs = 0
    /\ totalVisitors = <<>>
    /\ openDays = <<>>
    /\ totals = <<>>
    /\ repErr = "none"

ExpIdle ==
    /\ slots = {}

AppIdle ==
    /\ UpIdle
    /\ RepIdle
    /\ ExpIdle

CoverIdle ==
    /\ coverIn = [text_from_bottom_cm |-> Rat(58, 10), height |-> PageHeight]
    /\ coverY = Some(CoverTextY(Rat(58, 10), PageHeight))

\* ---- a build
Init ==
    /\ unreadable \in SUBSET Paths
    /\ coverOK \in BOOLEAN
    /\ logoOK \in BOOLEAN
    /\ BuildIdle
    /\ FmtIdle
    /\ CiIdle
    /\ CoverIdle
    /\ CallIdle
    /\ AppIdle

Next ==
    \/ \E imgs \in SeqsUpTo(Paths, MaxImages), fn \in FileNames,
          tv \in VisitorCounts, tit \in Titles : BuildPdf(imgs, fn, tv, tit)
    \/ HandlePageBegin
    \/ HandleParagraph
    \/ HandleNextPageTemplate
    \/ HandlePageBreak
    \/ HandleCenteredImage
    \/ EndBuild

Spec == Init /\ [][Next]_vars

\* ---- the visitor count
FmtInputs == 0..MaxSmallVisitors
             \cup {9999, 10000, 99999, 100000, 999999, 1000000, 1234567,
                   12345678, 999999999, 1000000000}

InitFmt ==
    /\ unreadable = {}
    /\ coverOK = TRUE
    /\ logoOK = TRUE
    /\ BuildIdle
    /\ fmtIn \in FmtInputs
    /\ fmtOut = <<>>
    /\ CiIdle
    /\ CoverIdle
    /\ CallIdle
    /\ AppIdle

NextFmt == FormatVisitors

SpecFmt == InitFmt /\ [][NextFmt]_vars

\* ---- a CenteredImage
Scales == {None, Some(Zero), Some(Rat(1, 2)), Some(FromInt(2))}
DrawWidths == {None, Some(Zero), Some(CmTimes(26, 1)), Some(FromInt(300))}
DrawHeights == {None, Some(Zero), Some(CmTimes(10, 1))}
AvailWidths == {FrameAvailWidth("BODY"), FromInt(250)}
AvailHeights == {FrameAvailHeight("BODY"), FromInt(200)}

InitCi ==
    /\ unreadable = {}
    /\ coverOK = TRUE
    /\ logoOK = TRUE
    /\ BuildIdle
    /\ FmtIdle
    /\ \E kw \in 1..MaxDim, kh \in 1..MaxDim, sc \in Scales, w \in DrawWidths,
          h \in DrawHeights, ft \in BOOLEAN, aW \in AvailWidths,
          aH \in AvailHeights :
            ci = [self |-> CenteredImage("small", w, h, sc, ft),
                  iw |-> 400 * kw, ih |-> 300 * kh, aW |-> aW, aH |-> aH]
    /\ ciPc = "new"
    /\ ciX = Zero
    /\ ciY = Zero
    /\ CoverIdle
    /\ CallIdle
    /\ AppIdle

NextCi == CiWrap \/ CiDraw

SpecCi == InitCi /\ [][NextCi]_vars

\* ---- the cover title: distances and page heights in half centimetres
CoverDistances == {Rat(k, 2) : k \in (0 - MaxHalfCm)..MaxHalfCm} \cup {Rat(58, 10)}
CoverHeights == {CmTimes(k, 2) : k \in 1..MaxHalfCm} \cup {PageHeight}

InitCover ==
    /\ unreadable = {}
    /\ coverOK = TRUE
    /\ logoOK = TRUE
    /\ BuildIdle
    /\ FmtIdle
    /\ CiIdle
    /\ \E d \in CoverDistances, h \in CoverHeights :
            coverIn = [text_from_bottom_cm |-> d, height |-> h]
    /\ coverY = None
    /\ CallIdle
    /\ AppIdle

NextCover == CoverTitleY

SpecCover == InitCover /\ [][NextCover]_vars

\* ---- calls of build_pdf one after the other, and two at once
Requests ==
    { [page_images |-> <<>>, file_name |-> <<"J", "u", "l">>,
       total_visitors |-> 0, titulo |-> "Informe"],
      [page_images |-> <<"wide">>, file_name |-> <<"J", "u", "l">>,
       total_visitors |-> 1234567, titulo |-> "Informe"],
      [page_images |-> <<"wide">>, file_name |-> <<"J", "u", "l">>,
       total_visitors |-> 1234567, titulo |-> "Informe Consolidado"],
      [page_images |-> <<"wide", "tall">>,
       file_name |-> <<"2", "0", "2", "5", "-", "0", "8">>,
       total_visitors |-> 987, titulo |-> "Informe Consolidado"] }

InitCalls ==
    /\ unreadable \in SUBSET {"tall"}
    /\ coverOK \in BOOLEAN
    /\ logoOK \in BOOLEAN
    /\ BuildIdle
    /\ FmtIdle
    /\ CiIdle
    /\ CoverIdle
    /\ CallIdle
    /\ AppIdle

Engine ==
    \/ HandlePageBegin
    \/ HandleParagraph
    \/ HandleNextPageTemplate
    \/ HandlePageBreak
    \/ HandleCenteredImage
    \/ EndBuild

NextRepeat ==
    \/ \E r \in Requests :
          BuildPdf(r.page_images, r.file_name, r.total_visitors, r.titulo)
    \/ Engine
    \/ BuildReturns

SpecRepeat == InitCalls /\ [][NextRepeat]_vars

NextPair ==
    \/ \E r \in Requests :
          BuildPdf(r.page_images, r.file_name, r.total_visitors, r.titulo)
    \/ Engine
    \/ Switch

SpecPair == InitCalls /\ [][NextPair]_vars

\* ---- the upload form
\* every file given, one file missing, or none given
Uploads == {Uploaders, {}} \cup {Uploaders \ {u} : u \in Uploaders}

InitUpload ==
    /\ unreadable = {}
    /\ coverOK = TRUE
    /\ logoOK = TRUE
    /\ BuildIdle
    /\ FmtIdle
    /\ CiIdle
    /\ CoverIdle
    /\ CallIdle
    /\ UpIdle
    /\ RepIdle
    /\ ExpIdle

NextUpload ==
    \/ \E nameGiven \in BOOLEAN, startAfterEnd \in BOOLEAN,
          uploaded \in Uploads :
            Submit(nameGiven, startAfterEnd, uploaded)
    \/ RunLoader
    \/ Finish
    \/ Clear

SpecUpload == InitUpload /\ [][NextUpload]_vars

\* ---- the report tab
VisitRows ==
    [day : 1..2, Pax : {0, 2}, Importe : {0, 10},
     Producto : {"Visita a elBulli1846", "Parking (3h)"}]

DateRanges ==
    {[start |-> 1, end |-> 2], [start |-> 2, end |-> 2], [start |-> 3, end |-> 3]}

InitReport ==
    /\ unreadable = {}
    /\ coverOK = TRUE
    /\ logoOK = TRUE
    /\ BuildIdle
    /\ FmtIdle
    /\ CiIdle
    /\ CoverIdle
    /\ CallIdle
    /\ reportReady \in BOOLEAN
    /\ session = [k \in StateKeys |-> IF reportReady THEN 1 ELSE 0]
    /\ submissions = IF reportReady THEN 1 ELSE 0
    /\ form = [nameGiven |-> reportReady, startAfterEnd |-> FALSE,
               uploaded |-> IF reportReady THEN Uploaders ELSE {}]
    /\ upPc = "idle"
    /\ ran = IF reportReady THEN [i \in 1..Len(Steps) |-> Steps[i].key] ELSE <<>>
    /\ bar = <<>>
    /\ progress = IF reportReady THEN 84 ELSE 0
    /\ message = IF reportReady THEN "success" ELSE "none"
    /\ dfVisit \in (IF reportReady THEN SeqsUpTo(VisitRows, MaxRows) ELSE {<<>>})
    /\ dateRange \in DateRanges
    /\ devMode \in BOOLEAN
    /\ runs = 0
    /\ totalVisitors = <<>>
    /\ openDays = <<>>
    /\ totals = <<>>
    /\ repErr = "none"
    /\ ExpIdle

NextReport == RenderReport

SpecReport == InitReport /\ [][NextReport]_vars

\* ---- the export tab: no slot filled, or a few of the thirteen
SlotChoices == {f \in SUBSET SlotSet : Cardinality(f) <= MaxFilled}

InitExport ==
    /\ unreadable \in {{}, {"p2"}}
    /\ coverOK = TRUE
    /\ logoOK = TRUE
    /\ BuildIdle
    /\ FmtIdle
    /\ CiIdle
    /\ CoverIdle
    /\ CallIdle
    /\ reportReady \in BOOLEAN
    /\ session = [k \in StateKeys |-> IF reportReady THEN 1 ELSE 0]
    /\ submissions = IF reportReady THEN 1 ELSE 0
    /\ form = [nameGiven |-> reportReady, startAfterEnd |-> FALSE,
               uploaded |-> IF reportReady THEN Uploaders ELSE {}]
    /\ upPc = "idle"
    /\ ran = IF reportReady THEN [i \in 1..Len(Steps) |-> Steps[i].key] ELSE <<>>
    /\ bar = <<>>
    /\ progress = IF reportReady THEN 84 ELSE 0
    /\ message = IF reportReady THEN "success" ELSE "none"
    /\ dfVisit = IF reportReady
                 THEN <<[day |-> 1, Pax |-> 2, Importe |-> 10,
                         Producto |-> "Visita a elBulli1846"]>>
                 ELSE <<>>
    /\ dateRange = [start |-> 1, end |-> 1]
    /\ devMode = FALSE
    /\ runs = 1
    /\ totalVisitors = IF reportReady THEN <<2>> ELSE <<>>
    /\ openDays = IF reportReady THEN <<1>> ELSE <<>>
    /\ totals = totalVisitors
    /\ repErr = "none"
    /\ slots \in SlotChoices

NextExport ==
    \/ GeneratePdf
    \/ Engine

SpecExport == InitExport /\ [][NextExport]_vars

(***************************************************************************)
(* Properties of a build.                                                  *)
(***************************************************************************)
OpsOf(ops, elem) == SelectSeq(ops, LAMBDA o : o.elem = elem)
CountElem(ops, elem) == Len(OpsOf(ops, elem))
ImagePathsOn(ops) ==
    LET im == OpsOf(ops, "image") IN [i \in 1..Len(im) |-> im[i].text[1]]

\* int(text) of a sequence of decimal digits
RECURSIVE ParseNat(_)
ParseNat(text) ==
    IF text = <<>> THEN 0
    ELSE 10 * ParseNat(SubSeq(text, 1, Len(text) - 1)) + DigitValue(text[Len(text)])

AllReadable == \A i \in 1..Len(page_images) : page_images[i] \notin unreadable

\* C1: with every path readable a build of N images does not fail (no I/O
\* error, no layout error), and the finished document has exactly N + 1
\* pages: the cover, which carries no page image, and then pages that each
\* carry exactly one image (none skipped, none merged away, no blank page
\* after the cover or at the end).
C1_PageCount ==
    /\ (coverOK /\ AllReadable) => pc # "failed"
    /\ pc = "done" =>
          /\ output = <<pages>>
          /\ Len(pages) = Len(page_images) + 1
          /\ CountElem(pages[1].ops, "image") = 0
          /\ \A k \in 2..Len(pages) : CountElem(pages[k].ops, "image") = 1

C1_Witness ==
    /\ pc = "done"
    /\ Len(page_images) = 3
    /\ page_images[1] = page_images[3]
    /\ Len(output[1]) = 4

\* C2: output page k + 1 draws the image at (1-based) index k of page_images
\* and nothing else of the list, page 1 being the cover: the output order is
\* the input order, in every state of the build and in the finished document.
C2_PageOrder ==
    /\ \A k \in 1..Len(pages) :
          /\ pages[k].number = k
          /\ k = 1 => pages[k].template = "COVER" /\ ImagePathsOn(pages[k].ops) = <<>>
          /\ k > 1 => ImagePathsOn(pages[k].ops) = <<page_images[k - 1]>>
    /\ pc = "done" => Len(output[1]) = Len(page_images) + 1

C2_Witness ==
    /\ pc = "done"
    /\ page_images = <<"wide", "tall", "tall">>
    /\ ImagePathsOn(output[1][2].ops) = <<"wide">>
    /\ ImagePathsOn(output[1][4].ops) = <<"tall">>

\* C3: draw_common_elements has been called once for each page begun after
\* the cover and draw_cover once, for the cover; every shown body page
\* carries one header and one footer and the cover none; with no images the
\* document is the cover alone and the body renderer was never called.
C3_HeaderFooterPerBodyPage ==
    /\ commonCalls = (IF page >= 1 THEN page - 1 ELSE 0)
    /\ coverCalls = (IF page >= 1 THEN 1 ELSE 0)
    /\ \A k \in 1..Len(pages) :
          \A e \in {"title", "dateLabel", "dateValue", "visLabel", "visValue",
                    "pageNum"} :
              CountElem(pages[k].ops, e) = (IF k = 1 THEN 0 ELSE 1)
    /\ (pc = "done" /\ page_images = <<>>) =>
          /\ Len(output[1]) = 1
          /\ commonCalls = 0

C3_Witness ==
    /\ pc = "done"
    /\ Len(page_images) = 2
    /\ commonCalls = 2
    /\ coverCalls = 1
    /\ CountElem(output[1][3].ops, "title") = 1

\* C4: the number drawn in the footer of a page is the engine's page index
\* minus one: the first body page shows 1, each later one the previous
\* number plus 1, and the cover shows no number.
C4_FooterPageNumber ==
    /\ \A k \in 1..Len(pages) :
          LET nums == OpsOf(pages[k].ops, "pageNum")
          IN  IF k = 1 THEN nums = <<>>
              ELSE /\ Len(nums) = 1
                   /\ ParseNat(nums[1].text) = pages[k].number - 1
                   /\ ParseNat(nums[1].text) = k - 1
    /\ (pc = "build" /\ ~hanging /\ page >= 2) =>
          LET nums == OpsOf(canvasOps, "pageNum")
          IN  Len(nums) = 1 /\ ParseNat(nums[1].text) = page - 1

C4_Witness ==
    /\ pc = "done"
    /\ Len(output[1]) = 4
    /\ OpsOf(output[1][2].ops, "pageNum")[1].text = <<"1">>
    /\ OpsOf(output[1][4].ops, "pageNum")[1].text = <<"3">>
    /\ OpsOf(output[1][1].ops, "pageNum") = <<>>

\* the templates of the pages shown, and the active one
TemplateInv ==
    /\ \A k \in 1..Len(pages) :
          pages[k].template = (IF k = 1 THEN "COVER" ELSE "BODY")
    /\ pc # "idle" => (pageTemplate = "BODY" <=> Len(pages) >= 1)
    /\ page >= 2 => pageTemplate = "BODY"

\* C5: the template switch is one-way.  The cover template is the template
\* of page 1 only; from the moment the cover page has been shown the active
\* template is BODY, and a step of the build never takes it from BODY back
\* to COVER.
C5_OneWayTemplate ==
    /\ []TemplateInv
    /\ [][(pc = "build" /\ pageTemplate = "BODY") => pageTemplate' = "BODY"]_vars

C5_Witness ==
    /\ pc = "build"
    /\ pageTemplate = "BODY"
    /\ Len(pages) = 3
    /\ page = 3
    /\ hanging

\* C6: a build given an unreadable page image never completes: once the
\* engine has stopped it has failed with the reader's I/O error, and a
\* failed build has written nothing to the output; a build that completes
\* has drawn every image of the list, N + 1 pages in all.
C6_UnreadableImageFails ==
    /\ (~AllReadable /\ pc # "idle") =>
          /\ pc # "done"
          /\ output = <<>>
          /\ (story = <<>> /\ pc # "build") => pc = "failed"
    /\ pc = "failed" => output = <<>> /\ err # "none"
    /\ (pc = "failed" /\ coverOK) => err = "IOError" /\ ~AllReadable
    /\ pc = "done" => AllReadable /\ Len(output[1]) = Len(page_images) + 1

C6_Witness ==
    /\ pc = "failed"
    /\ err = "IOError"
    /\ coverOK
    /\ Len(pages) = 2
    /\ page_images[2] \in unreadable
    /\ page_images[1] \notin unreadable
    /\ output = <<>>

\* C7: with the cover image missing the build fails with the reader's error
\* when the first page begins: no page is ever shown, the body renderer is
\* never called and nothing is written.
C7_MissingCoverFatal ==
    ~coverOK =>
        /\ pc # "done"
        /\ pages = <<>>
        /\ output = <<>>
        /\ commonCalls = 0
        /\ page >= 1 => (pc = "failed" /\ err = "IOError" /\ page = 1)

C7_Witness ==
    /\ ~coverOK
    /\ logoOK
    /\ pc = "failed"
    /\ page = 1
    /\ Len(page_images) = 2
    /\ AllReadable

\* C8: with the logo missing and everything else readable the build does
\* not fail and completes with N + 1 pages; each body page carries no logo
\* and, apart from it, exactly the header and footer elements that a build
\* with the logo present draws, at the same positions.  With the logo
\* present it is drawn once on every body page.
C8_MissingLogoAbsorbed ==
    /\ (~logoOK /\ coverOK /\ AllReadable) => pc # "failed"
    /\ (pc = "done" /\ coverOK /\ AllReadable) =>
          Len(output[1]) = Len(page_images) + 1
    /\ \A k \in 2..Len(pages) :
          LET drawn == SelectSeq(pages[k].ops, LAMBDA o : o.elem # "image")
              full == DrawHeader(file_name, TitleText)
                      \o DrawLogo(TRUE).ops
                      \o DrawFooter(total_visitors, k)
          IN  /\ CountElem(drawn, "logo") = (IF logoOK THEN 1 ELSE 0)
              /\ SelectSeq(drawn, LAMBDA o : o.elem # "logo")
                 = SelectSeq(full, LAMBDA o : o.elem # "logo")
              /\ logoOK => drawn = full

C8_Witness ==
    /\ ~logoOK
    /\ pc = "done"
    /\ Len(output[1]) = 3
    /\ CountElem(output[1][2].ops, "logo") = 0
    /\ CountElem(output[1][2].ops, "pageNum") = 1
    /\ CountElem(output[1][2].ops, "title") = 1

(***************************************************************************)
(* Properties of the visitor-count format.                                 *)
(***************************************************************************)
\* C9: the rendered visitor count of a non-negative integer has no ','; its
\* characters other than '.' are decimal digits that read as the number,
\* without a leading zero; a '.' stands exactly before every group of three
\* digits counted from the right, so a value below 1000 is left as it is;
\* 1234567 renders as 1.234.567.
C9_ThousandsFormat ==
    fmtOut # <<>> =>
        LET L == Len(fmtOut)
            digits == SelectSeq(fmtOut, LAMBDA c : c # ".")
        IN  /\ \A i \in 1..L : fmtOut[i] # ","
            /\ \A i \in 1..L : (fmtOut[i] = ".") <=> ((L - i + 1) % 4 = 0)
            /\ L % 4 # 0
            /\ \A i \in 1..Len(digits) : DigitValue(digits[i]) >= 0
            /\ ParseNat(digits) = fmtIn
            /\ Len(digits) > 1 => digits[1] # "0"
            /\ fmtIn < 1000 => fmtOut = digits
            /\ fmtIn = 1234567 =>
                  fmtOut = <<"1", ".", "2", "3", "4", ".", "5", "6", "7">>

C9_Witness ==
    /\ fmtIn = 1234567
    /\ fmtOut = <<"1", ".", "2", "3", "4", ".", "5", "6", "7">>

(***************************************************************************)
(* Properties of CenteredImage.                                            *)
(***************************************************************************)
\* C10: whatever the hints, the intrinsic size and the available area, the
\* size wrap computes has the image's aspect ratio:
\* drawWidth * intrinsicHeight = drawHeight * intrinsicWidth.
C10_AspectRatioKept ==
    ciPc \in {"wrapped", "drawn"} =>
        RMul(Val(ci.self.dw), FromInt(ci.ih)) = RMul(Val(ci.self.dh), FromInt(ci.iw))

C10_Witness ==
    /\ ciPc = "wrapped"
    /\ IsNone(ci.self.scale)
    /\ Truthy(ci.self.draw_w)
    /\ Truthy(ci.self.draw_h)
    /\ ci.self.fit
    /\ RLt(Zero, Val(ci.self.dw))
    /\ RLt(Val(ci.self.dw), Val(ci.self.draw_w))
    /\ RLt(Val(ci.self.dh), Val(ci.self.draw_h))
    /\ ci.iw # ci.ih

(***************************************************************************)
(* Properties of the image pages.                                          *)
(***************************************************************************)
\* the box of a drawn element lies inside the frame of template tpl
InsideFrame(o, tpl) ==
    LET f == FrameOf(tpl)
    IN  /\ RLe(f.x, o.x)
        /\ RLe(f.y, o.y)
        /\ RLe(RAdd(o.x, o.w), RAdd(f.x, f.w))
        /\ RLe(RAdd(o.y, o.h), RAdd(f.y, f.h))

\* C11: on every image page the drawn image box (x, y, drawWidth,
\* drawHeight) lies inside the BODY content frame, whatever the image's
\* intrinsic size.
C11_ImageWithinFrame ==
    \A k \in 2..Len(pages) :
        \A i \in 1..Len(pages[k].ops) :
            pages[k].ops[i].elem = "image" => InsideFrame(pages[k].ops[i], "BODY")

(***************************************************************************)
(* Properties of CenteredImage.wrap and draw, hint by hint.                *)
(***************************************************************************)
\* the draw size before the fit step, for the flowable under test
Hinted == WrapHinted(ci.self, ci.iw, ci.ih)
Wrapped == ciPc \in {"wrapped", "drawn"}

\* C12: with fit set, wrap returns a size that is the hinted size times a
\* ratio of at most 1: it is no larger than the hinted size, no wider than
\* the available width and no higher than the available height, and equal
\* to the hinted size when that already fits; this for every intrinsic
\* size, hint combination and available area.
C12_FitWithinAvail ==
    (ci.self.fit /\ ciPc # "new") =>
        /\ ciPc # "raised"
        /\ RLe(Val(ci.self.dw), ci.aW)
        /\ RLe(Val(ci.self.dh), ci.aH)
        /\ RLe(Val(ci.self.dw), Hinted[1])
        /\ RLe(Val(ci.self.dh), Hinted[2])
        /\ (RLe(Hinted[1], ci.aW) /\ RLe(Hinted[2], ci.aH)) =>
              (Val(ci.self.dw) = Hinted[1] /\ Val(ci.self.dh) = Hinted[2])

\* C16: a given scale factor decides the size before the fit step, whatever
\* draw_w and draw_h are: it is (iw * scale, ih * scale); without fit that
\* is the size wrap records, with fit it is that size times
\* min(availW / (iw * scale), availH / (ih * scale), 1).
C16_ScalePrecedence ==
    ~IsNone(ci.self.scale) =>
        LET pw == RMul(FromInt(ci.iw), Val(ci.self.scale))
            ph == RMul(FromInt(ci.ih), Val(ci.self.scale))
        IN  /\ Hinted = <<pw, ph>>
            /\ (Wrapped /\ ~ci.self.fit) =>
                  (Val(ci.self.dw) = pw /\ Val(ci.self.dh) = ph)
            /\ (Wrapped /\ ci.self.fit) =>
                  LET rfit == RMin(RMin(RDiv(ci.aW, pw), RDiv(ci.aH, ph)), FromInt(1))
                  IN  /\ Val(ci.self.dw) = RMul(pw, rfit)
                      /\ Val(ci.self.dh) = RMul(ph, rfit)

C16_Witness ==
    /\ ciPc = "wrapped"
    /\ ci.self.scale = Some(FromInt(2))
    /\ Truthy(ci.self.draw_w)
    /\ Truthy(ci.self.draw_h)
    /\ ~ci.self.fit
    /\ Val(ci.self.dw) = FromInt(2 * ci.iw)
    /\ Val(ci.self.dw) # Val(ci.self.draw_w)

\* C17: with no scale and both a target width and a target height given,
\* the size before the fit step is the intrinsic size times
\* min(draw_w / iw, draw_h / ih): no wider than draw_w, no higher than
\* draw_h, and equal to the target on at least one axis.
C17_Letterbox ==
    (IsNone(ci.self.scale) /\ ~IsNone(ci.self.draw_w) /\ ~IsNone(ci.self.draw_h)
     /\ Wrapped) =>
        LET tw == Val(ci.self.draw_w)
            th == Val(ci.self.draw_h)
            r == RMin(RDiv(tw, FromInt(ci.iw)), RDiv(th, FromInt(ci.ih)))
        IN  /\ Hinted = <<RMul(FromInt(ci.iw), r), RMul(FromInt(ci.ih), r)>>
            /\ RLe(Hinted[1], tw)
            /\ RLe(Hinted[2], th)
            /\ Hinted[1] = tw \/ Hinted[2] = th
            /\ ~ci.self.fit => (Val(ci.self.dw) = Hinted[1] /\ Val(ci.self.dh) = Hinted[2])

\* C18: with no scale and exactly one of draw_w / draw_h given, the size
\* before the fit step has the hinted dimension equal to the target, for
\* every given value, and the other dimension scaled by the same ratio; with
\* no hint at all it is the intrinsic size.
C18_SingleHint ==
    (IsNone(ci.self.scale) /\ Wrapped) =>
        /\ (~IsNone(ci.self.draw_w) /\ IsNone(ci.self.draw_h)) =>
              /\ Hinted[1] = Val(ci.self.draw_w)
              /\ Hinted[2] = RMul(FromInt(ci.ih),
                                  RDiv(Val(ci.self.draw_w), FromInt(ci.iw)))
        /\ (IsNone(ci.self.draw_w) /\ ~IsNone(ci.self.draw_h)) =>
              /\ Hinted[2] = Val(ci.self.draw_h)
              /\ Hinted[1] = RMul(FromInt(ci.iw),
                                  RDiv(Val(ci.self.draw_h), FromInt(ci.ih)))
        /\ (IsNone(ci.self.draw_w) /\ IsNone(ci.self.draw_h)) =>
              Hinted = <<FromInt(ci.iw), FromInt(ci.ih)>>

\* C19: draw paints the image at x = (availW - dw) / 2 - 1 cm and
\* y = (availH - dh) / 2, availW and availH being the area the preceding
\* wrap was given and (dw, dh) the size that wrap recorded.
C19_DrawPlacement ==
    /\ Wrapped => (ci.self.availW = Some(ci.aW) /\ ci.self.availH = Some(ci.aH))
    /\ ciPc = "drawn" =>
          /\ ciX = RSub(RDiv(RSub(ci.aW, Val(ci.self.dw)), FromInt(2)), Cm)
          /\ ciY = RDiv(RSub(ci.aH, Val(ci.self.dh)), FromInt(2))
          /\ RAdd(RAdd(ciX, Cm), RAdd(ciX, Cm)) = RSub(ci.aW, Val(ci.self.dw))
          /\ RAdd(ciY, ciY) = RSub(ci.aH, Val(ci.self.dh))

C19_Witness ==
    /\ ciPc = "drawn"
    /\ ci.self.draw_w = Some(CmTimes(26, 1))
    /\ IsNone(ci.self.scale)
    /\ IsNone(ci.self.draw_h)
    /\ ~ci.self.fit
    /\ ci.aW = FrameAvailWidth("BODY")
    /\ RLt(ciX, Zero)
    /\ RLt(RAdd(ciX, Cm), Cm)


\* the title's height lies in [1 cm, height - 1.5 cm]
TitleInClamp ==
    /\ RLe(Cm, Val(coverY))
    /\ RLe(Val(coverY), RSub(coverIn.height, CmTimes(15, 10)))

\* the statement of C20 as written: whatever the configured distance and the
\* page height, the title is placed within [1 cm, height - 1.5 cm]
C20_TitleClampEveryPage ==
    ~IsNone(coverY) => TitleInClamp

\* C20: for every configured distance, on a page at least 2.5 cm high the
\* title is placed within [1 cm, height - 1.5 cm], at the configured distance
\* when that lies in the interval; on a lower page the interval is empty and
\* the title is placed at 1 cm
C20_TitleClamp ==
    ~IsNone(coverY) =>
        LET want == RMul(coverIn.text_from_bottom_cm, Cm)
            top == RSub(coverIn.height, CmTimes(15, 10))
        IN  IF RLe(CmTimes(25, 10), coverIn.height)
            THEN /\ TitleInClamp
                 /\ (RLe(Cm, want) /\ RLe(want, top) => Val(coverY) = want)
            ELSE Val(coverY) = Cm

C20_Witness ==
    /\ ~IsNone(coverY)
    /\ RLe(CmTimes(25, 10), coverIn.height)
    /\ RLt(coverIn.height, PageHeight)
    /\ RLt(Val(coverY), RMul(coverIn.text_from_bottom_cm, Cm))
    /\ Val(coverY) = RSub(coverIn.height, CmTimes(15, 10))


\* C15: when a build has ended, finished or failed, no reader opened on a
\* page image during it is still open
C15_ReadersReleased ==
    pc \in {"done", "failed"} => openReaders = {}


(***************************************************************************)
(* Properties of more than one call.                                       *)
(***************************************************************************)
\* the page an image gets in a build that nothing else touches
BodyPageAlone(path, k, fn, tv) ==
    LET aW == FrameAvailWidth("BODY")
        aH == FrameAvailHeight("BODY")
        w == WrapCall(CenteredImage(path, Some(CmTimes(26, 1)), None, None, FALSE),
                      {}, aW, aH)
        d == DrawCall(w.self, {}, FrameLeft("BODY"),
                      RAdd(FrameBottom("BODY"), RSub(aH, w.size[2])))
    IN  [template |-> "BODY", number |-> k + 1,
         ops |-> DrawCommonElements(fn, tv, TitleText, k + 1, logoOK).ops \o d.ops]

\* what a call with these arguments leaves when no other call has run before
\* it or runs beside it, given the files
Alone(imgs, fn, tv) ==
    IF ~coverOK \/ (\E i \in 1..Len(imgs) : imgs[i] \in unreadable)
    THEN [output |-> <<>>, err |-> "IOError"]
    ELSE [output |-> << <<[template |-> "COVER", number |-> 1,
                           ops |-> CoverCall(fn, TRUE).ops]>>
                        \o [k \in 1..Len(imgs) |-> BodyPageAlone(imgs[k], k, fn, tv)] >>,
          err |-> "none"]

SameAsAlone(r) ==
    [output |-> r.output, err |-> r.err]
        = Alone(r.page_images, r.file_name, r.total_visitors)

SameInputs(a, b) ==
    /\ a.page_images = b.page_images
    /\ a.file_name = b.file_name
    /\ a.total_visitors = b.total_visitors

\* the calls that have ended, in the order they were made
Ended ==
    earlier \o (IF pc \in {"done", "failed"} THEN <<Result(CallLocals)>> ELSE <<>>)

\* C13: two calls of build_pdf with the same file_name, total_visitors and
\* page_images over the same files leave the same document or the same
\* failure, and every call leaves what it would leave with no call before it
C13_BuildDeterminism ==
    /\ \A i \in 1..Len(Ended) : SameAsAlone(Ended[i])
    /\ \A i, j \in 1..Len(Ended) :
            SameInputs(Ended[i], Ended[j]) =>
                /\ Ended[i].output = Ended[j].output
                /\ Ended[i].err = Ended[j].err

C13_Witness ==
    /\ Len(Ended) = 3
    /\ SameInputs(Ended[1], Ended[3])
    /\ ~SameInputs(Ended[1], Ended[2])
    /\ Ended[1].titulo # Ended[3].titulo
    /\ Ended[2].err = "none"
    /\ Ended[3].err = "none"
    /\ Len(Ended[3].output[1]) = 2
    /\ Ended[3].output = Ended[1].output
    /\ openReaders # {}


\* C14: of two calls of build_pdf that run at once, switched at any step,
\* each leaves the document or the failure it would leave alone
C14_ConcurrentIsolated ==
    \A call \in {CallLocals, parked} :
        call.pc \in {"done", "failed"} => SameAsAlone(Result(call))

C14_Witness ==
    /\ overlapped
    /\ pc = "done"
    /\ parked.pc = "done"
    /\ page_images # parked.page_images
    /\ file_name # parked.file_name
    /\ Len(pages) > 1
    /\ Len(parked.pages) > 1


(***************************************************************************)
(* Properties of the header.                                               *)
(***************************************************************************)
\* the ops of one element on a page
ElemOps(pg, elem) == SelectSeq(pg.ops, LAMBDA o : o.elem = elem)

\* C21: on every body page the date value starts at the start of the label
\* plus the label's width in Raleway-Bold 10 plus a gap of 4 points, so the
\* label, which ends at its start plus its width, ends left of the value,
\* which runs to the right of its start
C21_DateLabelClear ==
    \A k \in 1..Len(pages) :
        pages[k].template = "BODY" =>
            /\ Len(ElemOps(pages[k], "dateLabel")) = 1
            /\ Len(ElemOps(pages[k], "dateValue")) = 1
            /\ LET label == ElemOps(pages[k], "dateLabel")[1]
                   value == ElemOps(pages[k], "dateValue")[1]
                   labelEnd == RAdd(label.x, StringWidth(label.text, "Raleway-Bold", 10))
               IN  /\ label.y = value.y
                   /\ value.text = file_name
                   /\ value.x = RAdd(labelEnd, FromInt(4))
                   /\ RLt(labelEnd, value.x)
                   /\ RLe(value.x, RAdd(value.x, StringWidth(value.text, "Raleway", 10)))

C21_Witness ==
    /\ pc = "done"
    /\ Len(pages) = 3
    /\ Len(file_name) > Len(FechaLabel)
    /\ \E k \in 1..Len(pages) : Len(ElemOps(pages[k], "dateValue")) = 1


(***************************************************************************)
(* Properties of the upload form.                                          *)
(***************************************************************************)
StepKeys == [i \in 1..Len(Steps) |-> Steps[i].key]

\* the loaders called in this submission are the first ones of the list, in
\* the order of the list
RanInOrder == Len(ran) <= Len(Steps) /\ ran = SubSeq(StepKeys, 1, Len(ran))

\* C22: reportReady becomes True only in the step that follows the seventh
\* loader of a submission, all seven having returned in the order
\* reservation, origin, client profiles, groups, store, visits, parking; a
\* loader that raises ends the submission with reportReady False, whatever
\* it was before, and no loader is called after it
C22_UploadStateMachine ==
    /\ [](RanInOrder)
    /\ [][ /\ (reportReady' /\ ~reportReady =>
                 /\ upPc = "loading"
                 /\ ran = StepKeys
                 /\ ran' = ran
                 /\ \A k \in StateKeys : session[k] = submissions)
           /\ (message' = "error" /\ upPc = "loading" =>
                 /\ ~reportReady'
                 /\ upPc' = "idle"
                 /\ session' = session)
           /\ (upPc = "idle" /\ submissions' = submissions => ran' = ran)
         ]_vars

C22_Witness ==
    /\ submissions = 2
    /\ message = "error"
    /\ ~reportReady
    /\ Len(ran) = 3
    /\ session["dfReservation"] = 2
    /\ session["dfParking"] = 1


\* a submission step that validation rejected
Rejected == submissions' = submissions + 1 /\ upPc' = "idle"

C29_ProgressBar ==
    /\ [](bar # <<>> /\ upPc = "loading" =>
            /\ bar[1] <= 99
            /\ bar[1] = Min(Len(ran) * incr, 99))
    /\ [](bar # <<>> /\ bar[1] = 100 =>
            reportReady /\ ran = StepKeys /\ upPc = "finishing")
    /\ [](message = "error" => bar = <<>>)
    /\ [][bar # <<>> /\ bar' # <<>> => bar'[1] >= bar[1]]_vars

C29_Witness ==
    /\ bar = <<100>>
    /\ progress = 84
    /\ reportReady
    /\ submissions = 2


(***************************************************************************)
(* Properties of the report tab.                                           *)
(***************************************************************************)
\* C24: every run of the script over the same stored data and the same
\* dates computes the totalVisitors of the first run, developer mode or not
C24_SameTotalEveryRun ==
    \A i \in 1..Len(totals) : totals[i] = totals[1]

\* C28: with reportReady true no run through the report tab ends in an
\* arithmetic error, whatever the visit log and the date range
C28_NoArithmeticError ==
    reportReady /\ runs > 0 => repErr = "none"


(***************************************************************************)
(* Properties of the export tab.                                           *)
(***************************************************************************)
\* slot a comes before slot b in the uploads list
SlotBefore(a, b) ==
    \E i, j \in 1..Len(SlotNames) : i < j /\ SlotNames[i] = a /\ SlotNames[j] = b

\* C25: build_pdf is called only with reportReady set; the page_images it
\* gets are the filled slots, each once, in the order p1..p13; a generated
\* report has one page more than there are filled slots, at most fourteen,
\* and its body pages carry the slots' images in slot order
C25_PdfFromSlots ==
    pc # "idle" =>
        /\ reportReady
        /\ titulo = "Informe Consolidado"
        /\ total_visitors = totalVisitors[1]
        /\ Len(page_images) = Cardinality(slots)
        /\ {page_images[i] : i \in 1..Len(page_images)} = slots
        /\ \A i, j \in 1..Len(page_images) :
                i < j => SlotBefore(page_images[i], page_images[j])
        /\ pc = "done" =>
                /\ Len(output[1]) = 1 + Cardinality(slots)
                /\ Len(output[1]) <= 1 + Len(SlotNames)
                /\ \A k \in 2..Len(output[1]) :
                        ImagePathsOn(output[1][k].ops) = <<page_images[k - 1]>>
                /\ \A k, m \in 2..Len(output[1]) :
                        k < m => SlotBefore(ImagePathsOn(output[1][k].ops)[1],
                                            ImagePathsOn(output[1][m].ops)[1])

C25_Witness ==
    /\ pc = "done"
    /\ slots = {"p3", "p11"}
    /\ Len(output[1]) = 3
    /\ ImagePathsOn(output[1][2].ops) = <<"p3">>
    /\ ImagePathsOn(output[1][3].ops) = <<"p11">>


(***************************************************************************)
(* Properties of the layout of the images.                                 *)
(***************************************************************************)
\* the engine is about to offer the frame to a readable image
ImageOffered ==
    /\ pc = "build"
    /\ ~hanging
    /\ story # <<>>
    /\ Head(story).type = "CenteredImage"
    /\ Head(story).path \notin unreadable

\* C26: wrap reports the width and height it was offered, whatever draw
\* size it has recorded, so an image is offered a whole frame and takes all
\* of it: no image is put back for another page, no build ends in a layout
\* error, and no page carries two images
C26_WrapReportsAvail ==
    /\ ImageOffered =>
          LET w == WrapCall(Head(story), unreadable,
                            FrameAvailWidth(pageTemplate), frameAvail)
          IN  /\ frameAvail = FrameAvailHeight("BODY")
              /\ w.raised = "none"
              /\ w.size = <<FrameAvailWidth("BODY"), FrameAvailHeight("BODY")>>
              /\ ~Head(story).postponed
    /\ (pc = "build" /\ ~hanging /\ pageFlowables > 0 /\ pageTemplate = "BODY")
          => IsZero(frameAvail)
    /\ err # "LayoutError"
    /\ CountElem(canvasOps, "image") <= 1
    /\ \A k \in 1..Len(pages) : CountElem(pages[k].ops, "image") <= 1

C26_Witness ==
    /\ pc = "done"
    /\ page_images = <<"tall", "wide">>
    /\ \E i \in 1..Len(pages[2].ops) :
          /\ pages[2].ops[i].elem = "image"
          /\ RLt(FrameAvailHeight("BODY"), pages[2].ops[i].h)
    /\ CountElem(pages[3].ops, "image") = 1


\* C27: two calls of build_pdf that differ in titulo only leave the same
\* document or the same failure; the header of every body page carries the
\* fixed title and the cover carries file_name
C27_TituloUnused ==
    /\ \A i, j \in 1..Len(Ended) :
            (SameInputs(Ended[i], Ended[j]) /\ Ended[i].titulo # Ended[j].titulo)
                => Ended[i].output = Ended[j].output /\ Ended[i].err = Ended[j].err
    /\ \A k \in 1..Len(pages) :
            /\ pages[k].template = "BODY" =>
                    /\ CountElem(pages[k].ops, "title") = 1
                    /\ OpsOf(pages[k].ops, "title")[1].text = TitleText
            /\ pages[k].template = "COVER" =>
                    /\ CountElem(pages[k].ops, "coverTitle") = 1
                    /\ OpsOf(pages[k].ops, "coverTitle")[1].text = file_name

C27_Witness ==
    /\ Len(Ended) = 2
    /\ Ended[1].titulo = "Informe Consolidado"
    /\ Ended[2].titulo = "Informe"
    /\ SameInputs(Ended[1], Ended[2])
    /\ Ended[1].err = "none"
    /\ Len(Ended[1].output[1]) = 2
    /\ Ended[2].output = Ended[1].output

=============================================================================
